---- MODULE Spec2Model ----
(***************************************************************************)
(* The identifier generator of kodawari.identity (identity/utilities.py):  *)
(* the codec functions and the id_generator generator function, driven by  *)
(* a wall clock that the environment advances.                             *)
(*                                                                         *)
(* Python integers are unbounded, TLC's are 32 bits wide.  Wall-clock      *)
(* readings (about 1.6 * 10^12 ms) are therefore kept as two decimal limbs *)
(* [hi, lo] standing for hi * 10^9 + lo, and the clock stays within a few  *)
(* milliseconds of kodawari_epoch, so that every identifier the generator  *)
(* composes is below 2^31.                                                 *)
(***************************************************************************)
EXTENDS Integers, FiniteSets, Sequences, TLC

\* ------------------------------------------------------------ bounds
\* The clock reads kodawari_epoch + 0 .. kodawari_epoch + MaxTick.
MaxTick == 1
\* The environment lets the clock change in the middle of a run of calls
\* only while the counter is at most MaxShortBurst or has reached
\* _max_sequences: runs of calls in one millisecond have at most
\* MaxShortBurst + 1 calls, or at least _max_sequences + 1.
MaxShortBurst == 0
\* next() calls that return, over all generators.  A long run of calls in
\* one millisecond is begun only if MaxCalls leaves room for the counter to
\* reach _max_sequences.
MaxCalls == 4098
\* Times the clock is set back (an NTP adjustment).
MaxRegressions == 1

\* ------------------------------------------------------------ constants
LimbBase == 10^9

kodawari_epoch == [hi |-> 1674, lo |-> 484829053]
_timestamp_bits == 41
_instance_bits == 10
_sequence_bits == 12
_max_instances == (2^_instance_bits) - 1
_max_sequences == (2^_sequence_bits) - 1

\* Optional[int]: None, or Some(x) for the integer x.
None == <<>>
Some(x) == <<x>>
Val(o) == o[1]

\* ------------------------------------------------------------ integers
\* a - b for two wall-clock readings (the difference fits an integer).
MsDiff(a, b) == (a.hi - b.hi) * LimbBase + (a.lo - b.lo)

\* a + n for a wall-clock reading a and an integer n >= 0.
MsPlus(a, n) ==
    [hi |-> a.hi + ((a.lo + n) \div LimbBase), lo |-> (a.lo + n) % LimbBase]

\* x << n and x >> n on non-negative integers.
ShiftLeft(x, n) == x * (2^n)
ShiftRight(x, n) == x \div (2^n)

RECURSIVE BitOr(_, _)
\* a | b on non-negative integers.
BitOr(a, b) ==
    IF a = 0 THEN b
    ELSE IF b = 0 THEN a
    ELSE (IF (a % 2) + (b % 2) > 0 THEN 1 ELSE 0) + 2 * BitOr(a \div 2, b \div 2)

RECURSIVE BitXor(_, _)
\* a ^ b on non-negative integers.
BitXor(a, b) ==
    IF a = 0 THEN b
    ELSE IF b = 0 THEN a
    ELSE (((a % 2) + (b % 2)) % 2) + 2 * BitXor(a \div 2, b \div 2)

\* ------------------------------------------------------------ wide integers
\* A non-negative Python integer of any size: the set of the positions of
\* its binary digits that are 1 (position 0 is the least significant); zero
\* is the empty set.  WXor, WAdd, WSub and WMul bind their operands as values
\* (x \in {a}) before they work on them.
WFromInt(n) == {i \in 0 .. 30 : (n \div (2^i)) % 2 = 1}

\* a << n and a >> n
WShl(a, n) == {i + n : i \in a}
WShr(a, n) == {i - n : i \in {j \in a : j >= n}}

\* a | b, a & b and a ^ b
WOr(a, b) == a \cup b
WAnd(a, b) == a \cap b
WXor(a, b) == CHOOSE r \in {(x \ y) \cup (y \ x) : x \in {a}, y \in {b}} : TRUE

RECURSIVE WAdd(_, _)
\* a + b: the digit-wise sum, plus the carries one position up.
WAdd(a, b) ==
    IF b = {} THEN a
    ELSE CHOOSE r \in {WAdd(WXor(x, y), WShl(WAnd(x, y), 1)) :
                           x \in {a}, y \in {b}} : TRUE

RECURSIVE WSub(_, _)
\* a - b, for a >= b: the digit-wise difference, minus the borrows one
\* position up.
WSub(a, b) ==
    IF b = {} THEN a
    ELSE CHOOSE r \in {WSub(WXor(x, y), WShl(y \ x, 1)) :
                           x \in {a}, y \in {b}} : TRUE

RECURSIVE WMul(_, _)
\* a * b: a shifted to each digit of b.
WMul(a, b) ==
    IF b = {} THEN {}
    ELSE CHOOSE r \in {WAdd(WShl(x, i), WMul(x, y \ {i})) :
                           x \in {a}, y \in {b},
                           i \in {CHOOSE k \in b : TRUE}} : TRUE

\* a < b: the highest digit in which they differ is a digit of b.
WLess(a, b) ==
    \E x \in {a}, y \in {b} : \E i \in y \ x : \A j \in x \ y : j < i

\* 2^n
WPow2(n) == {n}

RECURSIVE WDec(_)
\* The integer written with the decimal digits d, most significant first.
WDec(d) ==
    IF d = <<>> THEN {}
    ELSE CHOOSE r \in {WAdd(WMul(p, WFromInt(10)), WFromInt(d[Len(d)])) :
                           p \in {WDec(SubSeq(d, 1, Len(d) - 1))}} : TRUE

\* A wall-clock reading [hi, lo] as an integer.
WFromLimbs(a) == WAdd(WMul(WFromInt(a.hi), WFromInt(LimbBase)), WFromInt(a.lo))

\* ------------------------------------------------------------ codec
\* Mutant: the shift leaves the instance bits in the timestamp.
RawTimestampShort(id) == ShiftRight(id, _sequence_bits)

_get_raw_timestamp(id) == ShiftRight(id, _instance_bits + _sequence_bits)

\* Mutant: the identifier is shifted by the sequence bits only.
get_timestamp_short_shift(id) == MsPlus(kodawari_epoch, RawTimestampShort(id))

get_timestamp(id) == MsPlus(kodawari_epoch, _get_raw_timestamp(id))

get_instance(id) ==
    LET timestamp == _get_raw_timestamp(id)
    IN  ShiftRight(BitXor(id, ShiftLeft(timestamp, _instance_bits + _sequence_bits)),
                   _sequence_bits)

get_sequence(id) ==
    LET timestamp == _get_raw_timestamp(id)
        instance == get_instance(id)
    IN  BitXor(BitXor(id, ShiftLeft(instance, _sequence_bits)),
               ShiftLeft(timestamp, _instance_bits + _sequence_bits))

\* Mutant: the timestamp is not shifted past the instance bits.
ComposeIdNoShift(ts, inst, seq) ==
    BitOr(ShiftLeft(BitOr(ts, inst), _sequence_bits), seq)

\* The identifier the loop body composes (utilities.py lines 116-117).
ComposeId(ts, inst, seq) ==
    LET shifted_timestamp == ShiftLeft(ts, _instance_bits)
    IN  BitOr(ShiftLeft(BitOr(shifted_timestamp, inst), _sequence_bits), seq)

\* The codec on integers of any size.
W_kodawari_epoch == WFromLimbs(kodawari_epoch)

W_get_raw_timestamp(id) == WShr(id, _instance_bits + _sequence_bits)

\* Mutant: the epoch is not added back.
W_get_timestamp_relative(id) == W_get_raw_timestamp(id)

W_get_timestamp(id) == WAdd(W_get_raw_timestamp(id), W_kodawari_epoch)

\* Mutant: the timestamp is not cleared before the shift.
W_get_instance_unmasked(id) == WShr(id, _sequence_bits)

W_get_instance(id) ==
    LET timestamp == W_get_raw_timestamp(id)
    IN  WShr(WXor(id, WShl(timestamp, _instance_bits + _sequence_bits)),
             _sequence_bits)

\* Mutant: the instance is not cleared.
W_get_sequence_keeps_instance(id) ==
    LET timestamp == W_get_raw_timestamp(id)
    IN  WXor(id, WShl(timestamp, _instance_bits + _sequence_bits))

W_get_sequence(id) ==
    LET timestamp == W_get_raw_timestamp(id)
        instance == W_get_instance(id)
    IN  WXor(WXor(id, WShl(instance, _sequence_bits)),
             WShl(timestamp, _instance_bits + _sequence_bits))

\* Mutant: the sequence is added to the shifted fields, not or-ed into them.
W_ComposeIdAdd(ts, inst, seq) ==
    LET shifted_timestamp == WShl(ts, _instance_bits)
    IN  WAdd(WShl(WOr(shifted_timestamp, inst), _sequence_bits), seq)

\* lines 116-117
W_ComposeId(ts, inst, seq) ==
    LET shifted_timestamp == WShl(ts, _instance_bits)
    IN  WOr(WShl(WOr(shifted_timestamp, inst), _sequence_bits), seq)

\* ------------------------------------------------------------ history
\* The identifiers a generator has returned are recorded as a set of
\* disjoint, non-adjacent intervals <<low, high>> of integers: exactly the
\* set of returned identifiers, kept small when they are consecutive.
IvNear(S, x) == {iv \in S : iv[1] - 1 <= x /\ x <= iv[2] + 1}

IvAdd(S, x) ==
    LET near  == IvNear(S, x)
        lows  == {x} \cup {iv[1] : iv \in near}
        highs == {x} \cup {iv[2] : iv \in near}
        low   == CHOOSE l \in lows : \A m \in lows : l <= m
        high  == CHOOSE h \in highs : \A m \in highs : m <= h
    IN  (S \ near) \cup {<<low, high>>}

IvHas(S, x) == \E iv \in S : iv[1] <= x /\ x <= iv[2]

IvMeet(S, T) == \E a \in S, b \in T : a[1] <= b[2] /\ b[1] <= a[2]

RECURSIVE IvSize(_)
IvSize(S) ==
    IF S = {} THEN 0
    ELSE LET iv == CHOOSE v \in S : TRUE
         IN  (iv[2] - iv[1] + 1) + IvSize(S \ {iv})

\* ------------------------------------------------------------ state
Gens == {1, 2}

\* Arguments the callers pass to id_generator.
InstanceIds == {-1, 0, 1, _max_instances, _max_instances + 1}

\* int(time() * 1000): the readings the clock can give.
ClockValues == {MsPlus(kodawari_epoch, t) : t \in 0 .. MaxTick}

VARIABLES
    clock,               \* int(time() * 1000) if read now
    status,              \* per generator: "absent", "created" (generator object
                         \* made, body not started), "suspended" (at the yield),
                         \* "sleeping" (inside sleep(1)), "raised"
    instance_id,         \* the argument of id_generator
    previous_timestamp,  \* local of id_generator
    sequence,            \* local of id_generator
    current_timestamp,   \* local of id_generator
    emitted,             \* history: identifiers returned, as intervals
    returned,            \* history: number of next() calls that returned
    issuedAt,            \* history: per clock reading, identifiers returned by
                         \* calls that read it
    last,                \* history: outcome of the latest next() call
    before,              \* history: outcome of the call before that
    reading,             \* history: the clock value read by a call in progress
    regressions,         \* history: times the clock was set back
    span,                \* history: per clock reading, the least and the
                         \* greatest identifier returned by any generator
                         \* for it
    svc,                 \* the service process around generator 1 (see below)
    held,                \* a generator under a clock that stands still
    probe,               \* the codec applied to given fields or a given id
    race,                \* two threads calling next() on one generator
    auth,                \* one call of authenticate and what follows it
    api                  \* the recipe_api process: tables, events, requests

\* The generators and their clock.
libvars == <<clock, status, instance_id, previous_timestamp, sequence,
             current_timestamp, emitted, returned, issuedAt, last, before,
             reading, regressions, span>>

\* What the callers of the library add to it.
appvars == <<svc, held, probe, race, auth, api>>

vars == <<libvars, appvars>>

NoCall == [kind |-> "none"]

\* The generators before any is made.
InitLib ==
    /\ clock \in {kodawari_epoch}
    /\ status = [g \in Gens |-> "absent"]
    /\ instance_id = [g \in Gens |-> None]
    /\ previous_timestamp = [g \in Gens |-> None]
    /\ sequence = [g \in Gens |-> 0]
    /\ current_timestamp = [g \in Gens |-> None]
    /\ emitted = [g \in Gens |-> {}]
    /\ returned = [g \in Gens |-> 0]
    /\ issuedAt = [g \in Gens |-> [c \in ClockValues |-> 0]]
    /\ last = [g \in Gens |-> NoCall]
    /\ before = [g \in Gens |-> NoCall]
    /\ reading = [g \in Gens |-> None]
    /\ regressions = 0
    /\ span = [c \in ClockValues |-> None]

\* No service process: the library is called directly.
NoService == [state |-> "none"]

\* No generator under a held clock.
NoHeld == [state |-> "none"]

\* No codec call.
NoProbe == [state |-> "none"]

\* No threads.
NoRace == [state |-> "none"]

\* No call of authenticate.
NoAuth == [state |-> "none"]

\* No recipe_api process.
NoApi == [state |-> "none"]

Init ==
    /\ InitLib
    /\ svc = NoService
    /\ held = NoHeld
    /\ probe = NoProbe
    /\ race = NoRace
    /\ auth = NoAuth
    /\ api = NoApi

\* ------------------------------------------------------------ scheduling
\* A generator in the middle of a long run of calls in one millisecond.
MidBurst(g) ==
    /\ status[g] = "suspended"
    /\ sequence[g] > MaxShortBurst
    /\ sequence[g] < _max_sequences

RECURSIVE SumOver(_, _)
SumOver(f, S) ==
    IF S = {} THEN 0
    ELSE LET x == CHOOSE y \in S : TRUE
         IN  f[x] + SumOver(f, S \ {x})

\* next() calls that have returned so far.
Calls == SumOver(returned, Gens)

\* The callers of the other generators run only between such runs.
Turn(g) == \A h \in Gens \ {g} : ~MidBurst(h)

\* ------------------------------------------------------------ id_generator
\* Mutant: only a negative instance is refused.
InvalidInstanceNegative(i) == i < 0

\* line 97
InvalidInstance(i) == i < 0 \/ i > _max_instances

\* Mutant: a reading below the previous one counts as the same millisecond.
SameOrEarlierMillisecond(prev, cur) == prev # None /\ Val(prev) >= cur

\* line 105
SameMillisecond(prev, cur) == prev # None /\ prev = Some(cur)

\* Mutant: every further call of a millisecond waits.
OverflowedAlways(seq) == seq >= 0

\* line 106
Overflowed(seq) == seq > _max_sequences

\* Mutant: the counter is not incremented within a millisecond.
UpdatedSequenceHeld(prev, cur, seq) ==
    IF SameMillisecond(prev, cur) THEN seq ELSE 0

\* Mutant: the counter of a new millisecond starts at 1.
UpdatedSequenceFromOne(prev, cur, seq) ==
    IF SameMillisecond(prev, cur) THEN seq + 1 ELSE 1

\* lines 105-112, on the paths that do not sleep: the counter after the update.
UpdatedSequence(prev, cur, seq) ==
    IF SameMillisecond(prev, cur) THEN seq + 1 ELSE 0

\* id_generator(i): calling a generator function makes the generator object
\* and runs none of its body.
Construct(g, i) ==
    /\ status[g] = "absent"
    /\ Turn(g)
    /\ status' = [status EXCEPT ![g] = "created"]
    /\ instance_id' = [instance_id EXCEPT ![g] = Some(i)]
    /\ UNCHANGED <<clock, previous_timestamp, sequence, current_timestamp,
                   emitted, returned, issuedAt, last, before, reading,
                   regressions, span>>

\* The range o of identifiers, with id added.
Widened(o, id) ==
    IF o = None THEN Some(<<id, id>>)
    ELSE Some(<<IF id < Val(o)[1] THEN id ELSE Val(o)[1],
                IF id > Val(o)[2] THEN id ELSE Val(o)[2]>>)

\* Mutant: previous_timestamp and sequence are module-level variables that
\* all generators share.
YieldSharedLocals(g, now, cur, seq, slept) ==
    \E id \in {ComposeId(cur, Val(instance_id[g]), seq)} :
        /\ status' = [status EXCEPT ![g] = "suspended"]
        /\ previous_timestamp' = [h \in Gens |-> Some(cur)]
        /\ sequence' = [h \in Gens |-> seq]
        /\ current_timestamp' = [current_timestamp EXCEPT ![g] = Some(cur)]
        /\ emitted' = [emitted EXCEPT ![g] = IvAdd(@, id)]
        /\ returned' = [returned EXCEPT ![g] = @ + 1]
        /\ issuedAt' = [issuedAt EXCEPT ![g][now] = @ + 1]
        /\ last' = [last EXCEPT ![g] =
                      [kind |-> "yield", id |-> id, now |-> now, seq |-> seq,
                       prior |-> issuedAt[g][now], slept |-> slept]]
        /\ before' = [before EXCEPT ![g] = last[g]]
        /\ reading' = [reading EXCEPT ![g] = None]
        /\ span' = [span EXCEPT ![now] = Widened(@, id)]

\* lines 114-118: record the timestamp, compose the identifier, yield it.
\* now is the clock reading of this call, slept the number of times it slept.
Yield(g, now, cur, seq, slept) ==
    \E id \in {ComposeId(cur, Val(instance_id[g]), seq)} :
        /\ status' = [status EXCEPT ![g] = "suspended"]
        /\ previous_timestamp' = [previous_timestamp EXCEPT ![g] = Some(cur)]
        /\ sequence' = [sequence EXCEPT ![g] = seq]
        /\ current_timestamp' = [current_timestamp EXCEPT ![g] = Some(cur)]
        /\ emitted' = [emitted EXCEPT ![g] = IvAdd(@, id)]
        /\ returned' = [returned EXCEPT ![g] = @ + 1]
        /\ issuedAt' = [issuedAt EXCEPT ![g][now] = @ + 1]
        /\ last' = [last EXCEPT ![g] =
                      [kind |-> "yield", id |-> id, now |-> now, seq |-> seq,
                       prior |-> issuedAt[g][now], slept |-> slept]]
        /\ before' = [before EXCEPT ![g] = last[g]]
        /\ reading' = [reading EXCEPT ![g] = None]
        /\ span' = [span EXCEPT ![now] = Widened(@, id)]

\* lines 104-112 up to the yield or the sleep, from the locals prev and seq.
LoopBody(g, prev, seq) ==
    LET now == clock
        cur == MsDiff(now, kodawari_epoch)
    IN  IF SameMillisecond(prev, cur) /\ Overflowed(seq)
        THEN /\ status' = [status EXCEPT ![g] = "sleeping"]
             /\ current_timestamp' = [current_timestamp EXCEPT ![g] = Some(cur)]
             /\ previous_timestamp' = [previous_timestamp EXCEPT ![g] = prev]
             /\ sequence' = [sequence EXCEPT ![g] = seq]
             /\ reading' = [reading EXCEPT ![g] = Some(now)]
             /\ UNCHANGED <<emitted, returned, issuedAt, last, before, span>>
        ELSE Yield(g, now, cur, UpdatedSequence(prev, cur, seq), 0)

\* The first next(): the body starts at line 97.
FirstNext(g) ==
    /\ status[g] = "created"
    /\ Turn(g)
    /\ IF InvalidInstance(Val(instance_id[g]))
       THEN /\ status' = [status EXCEPT ![g] = "raised"]
            /\ last' = [last EXCEPT ![g] = [kind |-> "raise"]]
            /\ before' = [before EXCEPT ![g] = last[g]]
            /\ UNCHANGED <<previous_timestamp, sequence, current_timestamp,
                           emitted, returned, issuedAt, reading, span>>
       ELSE LoopBody(g, None, 0)
    /\ UNCHANGED <<clock, instance_id, regressions>>

\* The next call takes the counter past MaxShortBurst.
BeginsLongRun(g) ==
    /\ SameMillisecond(previous_timestamp[g], MsDiff(clock, kodawari_epoch))
    /\ sequence[g] = MaxShortBurst

\* A later next(): the body resumes after the yield, at line 104.
LaterNext(g) ==
    /\ status[g] = "suspended"
    /\ Turn(g)
    /\ Calls < MaxCalls
    /\ BeginsLongRun(g) => Calls + _max_sequences <= MaxCalls
    /\ LoopBody(g, previous_timestamp[g], sequence[g])
    /\ UNCHANGED <<clock, instance_id, regressions>>

\* Mutant: after the sleep the call waits again until the clock has moved.
WakeRecheck(g) ==
    /\ status[g] = "sleeping"
    /\ Turn(g)
    /\ IF Some(clock) = reading[g]
       THEN UNCHANGED <<status, previous_timestamp, sequence, current_timestamp,
                        emitted, returned, issuedAt, last, before, reading,
                        span>>
       ELSE Yield(g, Val(reading[g]), Val(current_timestamp[g]), 0, 1)
    /\ UNCHANGED <<clock, instance_id, regressions>>

\* sleep(1) returns: lines 108 and 114-118, with the current_timestamp read
\* before the sleep.
Wake(g) ==
    /\ status[g] = "sleeping"
    /\ Turn(g)
    /\ Yield(g, Val(reading[g]), Val(current_timestamp[g]), 0, 1)
    /\ UNCHANGED <<clock, instance_id, regressions>>

\* next() on the generator whose body ended with the raise of line 98: the
\* generator is finished, and the call raises StopIteration.
NextAfterRaise(g) ==
    /\ status[g] = "raised"
    /\ Turn(g)
    /\ last' = [last EXCEPT ![g] = [kind |-> "stop"]]
    /\ before' = [before EXCEPT ![g] = last[g]]
    /\ UNCHANGED <<clock, status, instance_id, previous_timestamp, sequence,
                   current_timestamp, emitted, returned, issuedAt, reading,
                   regressions, span>>

\* ------------------------------------------------------------ environment
\* The wall clock moves forward.
Tick ==
    /\ \A g \in Gens : ~MidBurst(g)
    /\ \E c \in ClockValues : MsDiff(c, clock) > 0 /\ clock' = c
    /\ UNCHANGED <<status, instance_id, previous_timestamp, sequence,
                   current_timestamp, emitted, returned, issuedAt, last, before,
                   reading, regressions, span>>

\* The wall clock is set back.
StepBack ==
    /\ \A g \in Gens : ~MidBurst(g)
    /\ regressions < MaxRegressions
    /\ \E c \in ClockValues : MsDiff(c, clock) < 0 /\ clock' = c
    /\ regressions' = regressions + 1
    /\ UNCHANGED <<status, instance_id, previous_timestamp, sequence,
                   current_timestamp, emitted, returned, issuedAt, last, before,
                   reading, span>>

\* One generator, the deployment of one service process.
Next ==
    \/ (\E i \in InstanceIds : Construct(1, i)) /\ UNCHANGED appvars
    \/ FirstNext(1) /\ UNCHANGED appvars
    \/ LaterNext(1) /\ UNCHANGED appvars
    \/ Wake(1) /\ UNCHANGED appvars
    \/ Tick /\ UNCHANGED appvars
    \/ StepBack /\ UNCHANGED appvars

Spec == Init /\ [][Next]_vars

\* sleep(1) returns after a second: a sleeping call is woken.
SpecLive == Spec /\ WF_vars(Wake(1) /\ UNCHANGED appvars)

\* Two generators, two service processes on one clock that moves forward,
\* each made with an instance that id_generator accepts.
NextPair ==
    \/ (\E g \in Gens, i \in {j \in InstanceIds : ~InvalidInstance(j)} :
          Construct(g, i)) /\ UNCHANGED appvars
    \/ (\E g \in Gens : FirstNext(g)) /\ UNCHANGED appvars
    \/ (\E g \in Gens : LaterNext(g)) /\ UNCHANGED appvars
    \/ (\E g \in Gens : Wake(g)) /\ UNCHANGED appvars
    \/ Tick /\ UNCHANGED appvars

SpecPair == Init /\ [][NextPair]_vars

\* Two service processes of unequal load on one clock that moves forward:
\* generator 1 is made first and takes the long runs of calls, generator 2
\* is called at most MaxShortBurst + 1 times in a millisecond.
DuoInstances(g) == IF g = 1 THEN {0, _max_instances} ELSE {0, 1}

NextDuo ==
    \/ (\E g \in Gens : \E i \in DuoInstances(g) :
          (g = 2 => status[1] # "absent") /\ Construct(g, i))
          /\ UNCHANGED appvars
    \/ (\E g \in Gens : FirstNext(g)) /\ UNCHANGED appvars
    \/ (\E g \in Gens : (g = 2 => ~BeginsLongRun(g)) /\ LaterNext(g))
          /\ UNCHANGED appvars
    \/ (\E g \in Gens : Wake(g)) /\ UNCHANGED appvars
    \/ Tick /\ UNCHANGED appvars

SpecDuo == Init /\ [][NextDuo]_vars

\* Two generators made with any instance, valid or not, and called again
\* after a call has failed; no call takes the counter past MaxShortBurst.
NextRefused ==
    \/ (\E g \in Gens : \E i \in InstanceIds : Construct(g, i))
          /\ UNCHANGED appvars
    \/ (\E g \in Gens : FirstNext(g)) /\ UNCHANGED appvars
    \/ (\E g \in Gens : ~BeginsLongRun(g) /\ LaterNext(g))
          /\ UNCHANGED appvars
    \/ (\E g \in Gens : NextAfterRaise(g)) /\ UNCHANGED appvars
    \/ Tick /\ UNCHANGED appvars

SpecRefused == Init /\ [][NextRefused]_vars

\* ------------------------------------------------------------ service
\* user_api/main.py: one service process; its module-level id_generator is
\* generator 1.  A string is a sequence of characters; "sup2" stands for the
\* superscript two, a character str.isdigit accepts and int() rejects.
DecimalDigits == <<"0", "1", "2", "3", "4", "5", "6", "7", "8", "9">>

IsDecimal(c) == \E i \in DOMAIN DecimalDigits : DecimalDigits[i] = c

DigitValue(c) == (CHOOSE i \in DOMAIN DecimalDigits : DecimalDigits[i] = c) - 1

\* str.isdigit(): a non-empty string of digit characters.
isdigit(str) ==
    Len(str) > 0 /\ \A i \in DOMAIN str : IsDecimal(str[i]) \/ str[i] = "sup2"

\* int(str) raises ValueError.
IntRaises(str) == Len(str) = 0 \/ \E i \in DOMAIN str : ~IsDecimal(str[i])

RECURSIVE IntOf(_)
\* int(str) for a string of decimal digits.
IntOf(str) ==
    IF Len(str) = 0 THEN 0
    ELSE 10 * IntOf(SubSeq(str, 1, Len(str) - 1)) + DigitValue(str[Len(str)])

\* getenv("MACHINE_INSTANCE_IDENTIFIER"): None when unset.
EnvValues ==
    {None, Some(<<>>), Some(<<"x">>), Some(<<"-", "1">>), Some(<<"sup2">>),
     Some(<<"0">>), Some(<<"0", "1">>), Some(<<"1", "0", "2", "3">>),
     Some(<<"1", "0", "2", "4">>)}

\* Mutant: a missing or malformed value falls back to instance 0.
get_id_generator_default(v) ==
    IF v = None \/ ~isdigit(Val(v)) \/ IntRaises(Val(v)) THEN Some(0)
    ELSE Some(IntOf(Val(v)))

\* get_id_generator(): None when it raises, else Some(i) where the generator
\* object it returns is id_generator(i).
get_id_generator(v) ==
    IF v = None THEN None
    ELSE IF ~isdigit(Val(v)) THEN None
    ELSE IF IntRaises(Val(v)) THEN None
    ELSE Some(IntOf(Val(v)))

\* The last response of the service: status code, resource id, joined.
NoResponse == [code |-> 0, id |-> None, joined |-> None]

InitService ==
    /\ InitLib
    /\ \E e \in EnvValues, up \in BOOLEAN :
          svc = [state |-> "starting", env |-> e, cassandra |-> up,
                 rows |-> {}, madeAt |-> [c \in ClockValues |-> {}],
                 response |-> NoResponse]
    /\ held = NoHeld
    /\ probe = NoProbe
    /\ race = NoRace
    /\ auth = NoAuth
    /\ api = NoApi

\* on_startup: an exception leaves the hook and the process does not serve.
on_startup ==
    /\ svc.state = "starting"
    /\ LET made == get_id_generator(svc.env)
       IN  IF made = None
           THEN /\ svc' = [svc EXCEPT !.state = "aborted"]
                /\ UNCHANGED libvars
           ELSE /\ Construct(1, Val(made))
                /\ svc' = [svc EXCEPT !.state =
                              IF svc.cassandra THEN "serving" ELSE "aborted"]

\* The INSERT of post and its 201 response, for the identifier of call.
Stored(s, call) ==
    [s EXCEPT !.state = "serving",
              !.rows = IvAdd(@, call.id),
              !.madeAt[call.now] = IvAdd(@, call.id),
              !.response = [code |-> 201, id |-> Some(call.id), joined |-> None]]

ServerError(s) == [s EXCEPT !.response = [code |-> 500, id |-> None, joined |-> None]]

\* post: next(id_generator), then the INSERT.  A call that sleeps blocks the
\* event loop; post_resume is the rest of the handler.
post ==
    /\ svc.state = "serving"
    /\ \/ /\ FirstNext(1) \/ LaterNext(1)
          /\ svc' = IF status'[1] = "raised" THEN ServerError(svc)
                    ELSE IF status'[1] = "sleeping"
                         THEN [svc EXCEPT !.state = "blocked"]
                         ELSE Stored(svc, last'[1])
       \/ /\ status[1] = "raised"
          /\ svc' = ServerError(svc)
          /\ UNCHANGED libvars

post_resume ==
    /\ svc.state = "blocked"
    /\ Wake(1)
    /\ svc' = Stored(svc, last'[1])

\* An identifier no generator of the model composes.
UnknownId == ComposeId(MaxTick + 1, 0, 0)

\* The ids of GET requests: the bounds of the stored ranges and an unknown id.
GetIds == UNION {{iv[1], iv[2]} : iv \in svc.rows} \cup {UnknownId}

\* get: the SELECT by id and the joined field of the response.
get(id) ==
    /\ svc.state = "serving"
    /\ ~MidBurst(1)
    /\ svc' = [svc EXCEPT !.response =
                  IF IvHas(svc.rows, id)
                  THEN [code |-> 200, id |-> Some(id),
                        joined |-> Some(get_timestamp(id))]
                  ELSE [code |-> 404, id |-> Some(id), joined |-> None]]
    /\ UNCHANGED libvars

NextService ==
    \/ on_startup /\ UNCHANGED <<held, probe, race, auth, api>>
    \/ post /\ UNCHANGED <<held, probe, race, auth, api>>
    \/ post_resume /\ UNCHANGED <<held, probe, race, auth, api>>
    \/ (\E id \in GetIds : get(id)) /\ UNCHANGED <<held, probe, race, auth, api>>
    \/ Tick /\ UNCHANGED appvars

SpecService == InitService /\ [][NextService]_vars

\* ------------------------------------------------------------ held clock
\* One generator called again and again while time() returns one value, as
\* test_id_generator arranges by patching time and sleep.  Readings and
\* identifiers are integers of any size.
MaxHeldCalls == 4098

\* time_mock.return_value = 1674664504, read as int(time() * 1000).
TestClock == WMul(WDec(<<1, 6, 7, 4, 6, 6, 4, 5, 0, 4>>), WFromInt(1000))

\* The last reading whose timestamp fits _timestamp_bits, and the next one.
LastClock == WAdd(W_kodawari_epoch, WSub(WPow2(_timestamp_bits), WFromInt(1)))

HeldClocks == {W_kodawari_epoch, TestClock, LastClock, WAdd(LastClock, WFromInt(1))}

HeldInstances == {0, 1, _max_instances}

InitHeld ==
    /\ InitLib
    /\ svc = NoService
    /\ probe = NoProbe
    /\ race = NoRace
    /\ auth = NoAuth
    /\ api = NoApi
    /\ \E i \in HeldInstances, c \in HeldClocks :
          held = [state |-> "made", instance_id |-> i, clock |-> c,
                  previous_timestamp |-> None, sequence |-> 0,
                  calls |-> 0, id |-> None, slept |-> 0]

\* One next(): lines 104-118, the sleep of line 107 included.
HeldNext ==
    /\ held.state = "made"
    /\ held.calls < MaxHeldCalls
    /\ LET prev   == held.previous_timestamp
           cur    == WSub(held.clock, W_kodawari_epoch)
           sleeps == SameMillisecond(prev, cur) /\ Overflowed(held.sequence)
           seq    == IF sleeps THEN 0
                     ELSE UpdatedSequence(prev, cur, held.sequence)
       IN  held' = [held EXCEPT
                      !.previous_timestamp = Some(cur),
                      !.sequence = seq,
                      !.calls = @ + 1,
                      !.id = Some(W_ComposeId(cur, WFromInt(held.instance_id),
                                              WFromInt(seq))),
                      !.slept = IF sleeps THEN 1 ELSE 0]
    /\ UNCHANGED <<libvars, svc, probe, race, auth, api>>

NextHeld == HeldNext

SpecHeld == InitHeld /\ [][NextHeld]_vars

\* ------------------------------------------------------------ codec calls
\* The codec functions applied to fields and to identifiers that are given,
\* as integers of any size.
FixtureId == WDec(<<7, 3, 7, 5, 3, 4, 5, 8, 1, 8, 4, 1, 9, 2, 1>>)

ProbeTimestamps ==
    {WFromInt(0), WFromInt(1), WFromInt(175841947), WPow2(_timestamp_bits - 1),
     WSub(WPow2(_timestamp_bits), WFromInt(1))}

ProbeInstances == {WFromInt(i) : i \in {0, 1, 42, 512, _max_instances}}

ProbeSequences == {WFromInt(q) : q \in {0, 1, 2048, _max_sequences}}

ProbeFields == ProbeTimestamps \X ProbeInstances \X ProbeSequences

\* The first and the last digit of each field.
BoundaryDigits == {0, 11, 12, 21, 22, 62}

\* Non-negative integers below 2^63 that need not come from a generator:
\* every combination of the boundary digits, and some other values.
ProbeIds ==
    SUBSET BoundaryDigits \cup
    {WFromInt(0), FixtureId, WSub(WPow2(63), WFromInt(1)), WPow2(62),
     WPow2(_sequence_bits), WSub(WPow2(_sequence_bits), WFromInt(1)),
     WPow2(_instance_bits + _sequence_bits),
     WSub(WPow2(_instance_bits + _sequence_bits), WFromInt(1)),
     {i \in 0 .. 62 : i % 2 = 0}, {i \in 0 .. 62 : i % 2 = 1},
     {i \in 0 .. 62 : i % 3 = 0}}

Undecoded == [raw |-> None, timestamp |-> None, instance |-> None, sequence |-> None]

InitCodec ==
    /\ InitLib
    /\ svc = NoService
    /\ held = NoHeld
    /\ race = NoRace
    /\ auth = NoAuth
    /\ api = NoApi
    /\ \/ \E f \in ProbeFields :
             probe = [state |-> "fields", fields |-> Some(f), id |-> None,
                      decoded |-> Undecoded]
       \/ \E id \in ProbeIds :
             probe = [state |-> "id", fields |-> None, id |-> Some(id),
                      decoded |-> Undecoded]

\* lines 116-117 on the given fields.
Compose ==
    /\ probe.state = "fields"
    /\ LET f == Val(probe.fields)
       IN  probe' = [probe EXCEPT !.state = "id",
                                  !.id = Some(W_ComposeId(f[1], f[2], f[3]))]
    /\ UNCHANGED <<libvars, svc, held, race, auth, api>>

\* _get_raw_timestamp, get_timestamp, get_instance and get_sequence of the id.
Decode ==
    /\ probe.state = "id"
    /\ LET id == Val(probe.id)
       IN  probe' = [probe EXCEPT
                       !.state = "decoded",
                       !.decoded = [raw |-> Some(W_get_raw_timestamp(id)),
                                    timestamp |-> Some(W_get_timestamp(id)),
                                    instance |-> Some(W_get_instance(id)),
                                    sequence |-> Some(W_get_sequence(id))]]
    /\ UNCHANGED <<libvars, svc, held, race, auth, api>>

NextCodec ==
    \/ Compose
    \/ Decode

SpecCodec == InitCodec /\ [][NextCodec]_vars

\* ------------------------------------------------------------ caller
\* A caller of two generators that keeps the identifier it got last and
\* decodes it, as test_id_generator does with actual_id.
\* actual_id = next(generator): assigned, as the codec functions take it,
\* when the call returns an identifier.
Assign(g) ==
    probe' = IF status'[g] = "suspended"
             THEN [state |-> "id", fields |-> None,
                   id |-> Some(WFromInt(last'[g].id)), decoded |-> Undecoded]
             ELSE probe

\* The codec functions on actual_id, between the long runs of calls.
DecodeKept ==
    /\ \A g \in Gens : ~MidBurst(g)
    /\ Decode

NextCaller ==
    \/ (\E g \in Gens :
          \E i \in IF g = 1 THEN {0, _max_instances}
                   ELSE {1, _max_instances + 1} :
             (g = 2 => status[1] # "absent") /\ Construct(g, i))
          /\ UNCHANGED appvars
    \/ (\E g \in Gens : FirstNext(g) /\ Assign(g))
          /\ UNCHANGED <<svc, held, race, auth, api>>
    \/ (\E g \in Gens :
          (g = 2 => ~BeginsLongRun(g)) /\ LaterNext(g) /\ Assign(g))
          /\ UNCHANGED <<svc, held, race, auth, api>>
    \/ (\E g \in Gens : Wake(g) /\ Assign(g))
          /\ UNCHANGED <<svc, held, race, auth, api>>
    \/ DecodeKept
    \/ Tick /\ UNCHANGED appvars

SpecCaller == Init /\ [][NextCaller]_vars

\* ------------------------------------------------------------ authentication
\* authentication.py: a bearer token is a signed payload.  A token is given
\* by whether it parses as a JWT, the key it was signed with and its payload;
\* a payload field that is missing is None.
Keys == {"a-very-secret-key", "a-fake-secret"}

UserIds == {1, 2}

\* The expiry values of the tests, in seconds.
AuthExpiries == {0, 1650001000, 1750001000}

Tokens ==
    [wellformed : BOOLEAN, key : Keys,
     payload : [id : {None} \cup {Some(u) : u \in UserIds},
                expiry : {None} \cup {Some(e) : e \in AuthExpiries}]]

\* What a call gives: a value, or the exception it raises.
Returns(v) == [kind |-> "value", exc |-> "", value |-> Some(v)]
Raises(e) == [kind |-> "raise", exc |-> e, value |-> None]

\* jwt.decode(token, key=secret, algorithms=["HS256"])
decode(token, secret) ==
    IF ~token.wellformed THEN Raises("DecodeError")
    ELSE IF token.key # secret THEN Raises("InvalidSignatureError")
    ELSE Returns(token.payload)

\* BearerClaims(**decoded_json): id and expiry are required.
BearerClaims(json) ==
    IF json.id = None \/ json.expiry = None THEN Raises("ValidationError")
    ELSE Returns([id |-> Val(json.id), expiry |-> Val(json.expiry)])

\* validate_bearer, with the value now of the clock it reads.
validate_bearer(token, secret, now) ==
    IF secret = None THEN Raises("SecretEnvironmentVariableException")
    ELSE LET decoded_json == decode(token, Val(secret))
         IN  IF decoded_json.kind = "raise" THEN decoded_json
             ELSE LET bearer_claims == BearerClaims(Val(decoded_json.value))
                  IN  IF bearer_claims.kind = "raise" THEN bearer_claims
                      ELSE IF Val(bearer_claims.value).expiry < now
                           THEN Raises("BearerValidationException")
                           ELSE bearer_claims

\* What authenticate gives: the claims, or the status code of the
\* HTTPException it raises.
Claims(c) == [code |-> 0, claims |-> Some(c)]
HTTPException(code) == [code |-> code, claims |-> None]

\* Mutant: every failure of the validation is answered with 401.
authenticate_all_401(token, secret, now) ==
    LET r == validate_bearer(token, secret, now)
    IN  IF r.kind = "value" THEN Claims(Val(r.value)) ELSE HTTPException(401)

\* authenticate
authenticate(token, secret, now) ==
    LET r == validate_bearer(token, secret, now)
    IN  IF r.kind = "value" THEN Claims(Val(r.value))
        ELSE IF r.exc \in {"BearerValidationException", "InvalidSignatureError"}
             THEN HTTPException(401)
             ELSE HTTPException(500)

\* One request to a route that depends on authenticate.
InitAuth ==
    /\ InitLib
    /\ svc = NoService
    /\ held = NoHeld
    /\ probe = NoProbe
    /\ race = NoRace
    /\ api = NoApi
    \* int(datetime.now().timestamp()) is before, at or after an expiry.
    /\ \E t \in Tokens, k \in {None} \cup {Some(x) : x \in Keys},
          n \in {e + d : e \in AuthExpiries \ {0}, d \in {-1, 0, 1}} :
          auth = [state |-> "request", token |-> t, secret |-> k, now |-> n,
                  result |-> HTTPException(0)]

\* Depends(authenticate): the dependency is resolved.
ResolveDependency ==
    /\ auth.state = "request"
    /\ auth' = [auth EXCEPT
                  !.state = "resolved",
                  !.result = authenticate(auth.token, auth.secret, auth.now)]
    /\ UNCHANGED <<libvars, svc, held, probe, race, api>>

\* The route handler runs with the claims the dependency returned.
ProtectedHandler ==
    /\ auth.state = "resolved"
    /\ auth.result.claims # None
    /\ auth' = [auth EXCEPT !.state = "handled"]
    /\ UNCHANGED <<libvars, svc, held, probe, race, api>>

\* The HTTPException of the dependency is the response.
ErrorResponse ==
    /\ auth.state = "resolved"
    /\ auth.result.claims = None
    /\ auth' = [auth EXCEPT !.state = "rejected"]
    /\ UNCHANGED <<libvars, svc, held, probe, race, api>>

NextAuth ==
    \/ ResolveDependency
    \/ ProtectedHandler
    \/ ErrorResponse

SpecAuth == InitAuth /\ [][NextAuth]_vars

\* ------------------------------------------------------------ recipe_api
\* recipe_api/main.py and the post route of user_api/main.py: one process
\* (api.kind says which) with its module-level id_generator (generator 1),
\* its tables, the events it produces and the requests in progress.  A handler runs from one await to the next
\* without interruption; between two awaits the other requests may run.
\* The process is started after kodawari_epoch, so every stored id is
\* positive and decodes to a created_at above the epoch, as RecipeSchema
\* and VariationSchema require.
MaxRequests == 3

Slots == {1, 2}

\* The bearer tokens of the requests: one of each user, and an expired one.
ApiSecret == "a-very-secret-key"

ApiNow == 1650001000

\* MACHINE_INSTANCE_IDENTIFIER of the process.
ApiInstance == 1

ApiTokens ==
    {[wellformed |-> TRUE, key |-> ApiSecret,
      payload |-> [id |-> Some(u), expiry |-> Some(e)]] :
        u \in UserIds, e \in {1750001000}}
    \cup {[wellformed |-> TRUE, key |-> ApiSecret,
           payload |-> [id |-> Some(1), expiry |-> Some(0)]]}

Creates == {"post_recipe", "post_variation"}
\* user_api's post: no bearer is asked for, and no event is produced.
UserCreates == {"post_user"}
Patches == {"patch_recipe", "patch_variation"}
Deletes == {"delete_recipe", "delete_variation"}

\* The table a route reads first.
TableOf(op) ==
    IF op \in UserCreates THEN "user"
    ELSE IF op \in {"post_recipe", "patch_recipe", "delete_recipe",
                    "post_variation"}
    THEN "recipe" ELSE "variation"

\* The table a route writes.
Target(op) ==
    IF op \in UserCreates THEN "user"
    ELSE IF op \in {"post_recipe", "patch_recipe", "delete_recipe"}
    THEN "recipe" ELSE "variation"

\* The name of a created resource.
CreatedName == "name"

NoRequest ==
    [pc |-> "idle", op |-> "", id |-> None, recipe_id |-> None, user |-> 0,
     name |-> None, author |-> 0, code |-> 0, wrote |-> FALSE,
     produced |-> FALSE]

\* The process before on_startup.
Starting(kind) ==
    [kind |-> kind, state |-> "starting", user |-> {}, recipe |-> {},
     variation |-> {}, events |-> {}, inserts |-> 0, arrived |-> 0,
     req |-> [s \in Slots |-> NoRequest], response |-> NoRequest]

InitRecipe ==
    /\ InitLib
    /\ svc = NoService
    /\ held = NoHeld
    /\ probe = NoProbe
    /\ race = NoRace
    /\ auth = NoAuth
    /\ api = Starting("recipe_api")

\* on_startup: get_id_generator makes the generator object.
recipe_on_startup ==
    /\ api.state = "starting"
    /\ MsDiff(clock, kodawari_epoch) > 0
    /\ Construct(1, ApiInstance)
    /\ api' = [api EXCEPT !.state = "serving"]
    /\ UNCHANGED <<svc, held, probe, race, auth>>

\* The rows of a table with the given id.
Select(table, id) == {r \in table : r.id = id}

\* INSERT: the row with this primary key is written.
Insert(table, row) == {r \in table : r.id # row.id} \cup {row}

\* UPDATE ... SET name=? WHERE id=? IF EXISTS
Update(table, id, name) ==
    {IF r.id = id THEN [r EXCEPT !.name = name] ELSE r : r \in table}

\* DELETE ... WHERE id=? IF EXISTS
Delete(table, id) == {r \in table : r.id # id}

\* Mutant: the author is not compared with the caller.
ForbiddenNever(author_id, user) == FALSE

\* requested.author_id != bearer_claims.id
Forbidden(author_id, user) == author_id # user

\* The request r of slot s ends with a status code: the response is sent
\* and the slot is free.
Done(a, s, r, code) ==
    [a EXCEPT !.req[s] = NoRequest,
              !.response = [r EXCEPT !.pc = "done", !.code = code,
                                     !.name = None]]

\* The ids a request may name: those stored, and one that is not.
RequestIds ==
    {r.id : r \in api.user \cup api.recipe \cup api.variation}
    \cup {UnknownId}

\* A request arrives: authenticate where the route depends on it, then the
\* handler up to its first await.
Receive(s, op, token, id, name) ==
    /\ api.state = "serving"
    \* the slot an arriving request takes is the first that is free
    /\ api.req[s].pc = "idle"
    /\ \A t \in Slots : t < s => api.req[t].pc # "idle"
    /\ api.arrived < MaxRequests
    /\ LET a == IF op \in UserCreates THEN Claims([id |-> 0, expiry |-> 0])
                ELSE authenticate(token, Some(ApiSecret), ApiNow)
           r == [NoRequest EXCEPT !.op = op, !.id = id, !.name = name]
           arrived == [api EXCEPT !.arrived = @ + 1]
       IN  api' = IF a.claims = None
                  THEN Done(arrived, s, [NoRequest EXCEPT !.op = op], a.code)
                  ELSE [arrived EXCEPT !.req[s] =
                           [r EXCEPT !.user = Val(a.claims).id,
                                     !.pc = IF op \in {"post_recipe", "post_user"}
                                            THEN "insert" ELSE "select"]]
    /\ UNCHANGED <<libvars, svc, held, probe, race, auth>>

\* _get_recipe_internal or _get_variation_internal returns, and the handler
\* runs to its next await.
AfterSelect(s) ==
    /\ api.req[s].pc = "select"
    /\ LET r == api.req[s]
           found == Select(api[TableOf(r.op)], Val(r.id))
       IN  api' = IF found = {} THEN Done(api, s, r, 404)
                  ELSE LET row == CHOOSE x \in found : TRUE
                           read == [r EXCEPT !.author = row.author_id]
                       IN  IF r.op = "post_variation"
                           THEN [api EXCEPT !.req[s] = [r EXCEPT !.pc = "insert"]]
                           ELSE IF Forbidden(row.author_id, r.user)
                           THEN Done(api, s, read, 403)
                           ELSE [api EXCEPT !.req[s] = [read EXCEPT !.pc = "write"]]
    /\ UNCHANGED <<libvars, svc, held, probe, race, auth>>

\* Mutant: every request draws from a generator of its own.
AfterPrepareOwnGenerator(s) ==
    /\ api.req[s].pc = "insert"
    /\ LET r == api.req[s]
           new == ComposeId(MsDiff(clock, kodawari_epoch), ApiInstance, 0)
       IN  api' = [api EXCEPT
                     !.req[s] = [r EXCEPT !.pc = "write", !.id = Some(new),
                                          !.recipe_id = r.id]]
    /\ UNCHANGED <<libvars, svc, held, probe, race, auth>>

\* A create handler after create_prepared: next(id_generator), the bind
\* and the call of session.execute, up to the await of its result.
AfterPrepare(s) ==
    /\ api.req[s].pc = "insert"
    /\ FirstNext(1) \/ LaterNext(1)
    /\ LET r == api.req[s]
           new == last'[1].id
       IN  api' = [api EXCEPT
                     !.req[s] = [r EXCEPT !.pc = "write", !.id = Some(new),
                                          !.recipe_id = r.id]]
    /\ UNCHANGED <<svc, held, probe, race, auth>>

\* The statement is executed: the INSERT of a create, the UPDATE of a PATCH
\* that carries a value, or the DELETE.
Write(s) ==
    /\ api.req[s].pc = "write"
    /\ LET r == api.req[s]
           row == [id |-> Val(r.id), author_id |-> r.user,
                   name |-> CreatedName, recipe_id |-> r.recipe_id]
           creates == r.op \in Creates \cup UserCreates
       IN  api' = [api EXCEPT
                     ![Target(r.op)] =
                        IF creates THEN Insert(@, row)
                        ELSE IF r.op \in Deletes THEN Delete(@, Val(r.id))
                        ELSE IF r.name = None THEN @
                        ELSE Update(@, Val(r.id), Val(r.name)),
                     !.inserts = IF creates THEN @ + 1 ELSE @,
                     !.req[s] = [r EXCEPT !.pc = "emit",
                                          !.wrote = creates
                                                    \/ r.op \in Deletes
                                                    \/ r.name # None]]
    /\ UNCHANGED <<libvars, svc, held, probe, race, auth>>

\* producer.produce, where the route has an event, and the response.
Produce(s) ==
    /\ api.req[s].pc = "emit"
    /\ LET r == api.req[s]
           Topic == <<Target(r.op),
                      IF r.op \in Creates THEN "created"
                      ELSE IF r.op \in Patches THEN "modified"
                      ELSE "deleted">>
       IN  api' = IF r.op \in UserCreates THEN Done(api, s, r, 201)
                  ELSE Done([api EXCEPT
                               !.events = @ \cup {[topic |-> Topic,
                                                   key |-> Val(r.id),
                                                   actor |-> r.user]}],
                            s, [r EXCEPT !.produced = TRUE],
                            IF r.op \in Creates THEN 201 ELSE 204)
    /\ UNCHANGED <<libvars, svc, held, probe, race, auth>>

\* The requests come one after another.
NextRecipe ==
    \/ recipe_on_startup
    \/ \E op \in Creates \cup Patches \cup Deletes, token \in ApiTokens :
          \E id \in IF op = "post_recipe" THEN {None}
                    ELSE {Some(i) : i \in RequestIds} :
             \E name \in IF op \in Patches
                         THEN {None, Some("my updated name")} ELSE {None} :
                /\ \A s \in Slots : api.req[s].pc = "idle"
                /\ Receive(1, op, token, id, name)
    \/ \E s \in Slots : AfterSelect(s)
    \/ \E s \in Slots : AfterPrepare(s)
    \/ \E s \in Slots : Write(s)
    \/ \E s \in Slots : Produce(s)
    \/ api.state = "starting" /\ Tick /\ UNCHANGED appvars

SpecRecipe == InitRecipe /\ [][NextRecipe]_vars

\* ----------------------------------------------------- concurrent creates
\* The create routes of user_api and recipe_api with requests in progress
\* at the same time: a second request may arrive, and run from one of its
\* awaits to the next, while the first waits at one of its own.
InitCreate ==
    /\ InitLib
    /\ svc = NoService
    /\ held = NoHeld
    /\ probe = NoProbe
    /\ race = NoRace
    /\ auth = NoAuth
    /\ api \in {Starting(kind) : kind \in {"user_api", "recipe_api"}}

NextCreate ==
    \/ recipe_on_startup
    \/ \E s \in Slots, token \in ApiTokens :
          \E op \in IF api.kind = "user_api" THEN UserCreates ELSE Creates :
             \E id \in IF op = "post_variation"
                       THEN {Some(i) : i \in RequestIds} ELSE {None} :
                Receive(s, op, token, id, None)
    \/ \E s \in Slots : AfterSelect(s)
    \/ \E s \in Slots : AfterPrepare(s)
    \/ \E s \in Slots : Write(s)
    \/ \E s \in Slots : Produce(s)
    \/ Tick /\ UNCHANGED appvars

SpecCreate == InitCreate /\ [][NextCreate]_vars

\* ------------------------------------------------------------ threads
\* Two threads that call next() on one generator object, step by step.  A
\* generator object that is executing cannot be entered again: next() on it
\* raises ValueError("generator already executing") and leaves its frame as
\* it is.  The locals are those of the one frame of the generator.
MaxRaceCalls == 2

Threads == {1, 2}

RaceInstances == {0, _max_instances}

\* The frames a suspended generator can have at millisecond 0, and the
\* frame of a generator whose body has not started.
RaceFrames ==
    {[previous_timestamp |-> None, sequence |-> 0]} \cup
    {[previous_timestamp |-> Some(0), sequence |-> q] :
        q \in {0, _max_sequences, _max_sequences + 1}}

InitRace ==
    /\ InitLib
    /\ svc = NoService
    /\ held = NoHeld
    /\ probe = NoProbe
    /\ auth = NoAuth
    /\ api = NoApi
    /\ \E i \in RaceInstances, f \in RaceFrames :
          race = [state |-> "made", instance_id |-> i,
                  previous_timestamp |-> f.previous_timestamp,
                  sequence |-> f.sequence,
                  current_timestamp |-> None, id |-> None,
                  running |-> {},
                  pc |-> [t \in Threads |-> "idle"],
                  calls |-> [t \in Threads |-> 0],
                  done |-> {}, overlaps |-> {}]

\* The calls in progress when thread t makes its next call, paired with it.
Overlapping(t) ==
    {<<<<u, race.calls[u]>>, <<t, race.calls[t] + 1>>>> : u \in race.running}

\* Mutant: the generator object can be entered while it is executing.
CallUnguarded(t) ==
    /\ race.state = "made"
    /\ race.pc[t] = "idle"
    /\ race.calls[t] < MaxRaceCalls
    /\ race' = [race EXCEPT !.calls[t] = @ + 1,
                            !.overlaps = @ \cup Overlapping(t),
                            !.running = @ \cup {t},
                            !.pc[t] = "read"]
    /\ UNCHANGED <<libvars, svc, held, probe, auth, api>>

\* Thread t calls next(): the body resumes at line 104, or the call raises
\* ValueError because the generator is executing.
Call(t) ==
    /\ race.state = "made"
    /\ race.pc[t] = "idle"
    /\ race.calls[t] < MaxRaceCalls
    /\ IF race.running # {}
       THEN race' = [race EXCEPT
                       !.calls[t] = @ + 1,
                       !.overlaps = @ \cup Overlapping(t),
                       !.done = @ \cup {[call |-> <<t, race.calls[t] + 1>>,
                                         id |-> None]}]
       ELSE race' = [race EXCEPT !.calls[t] = @ + 1,
                                 !.running = {t},
                                 !.pc[t] = "read"]
    /\ UNCHANGED <<libvars, svc, held, probe, auth, api>>

\* line 104
ReadClock(t) ==
    /\ race.state = "made"
    /\ race.pc[t] = "read"
    /\ race' = [race EXCEPT
                   !.current_timestamp = Some(MsDiff(clock, kodawari_epoch)),
                   !.pc[t] = "compare"]
    /\ UNCHANGED <<libvars, svc, held, probe, auth, api>>

\* lines 105-112, up to the sleep
CompareAndUpdate(t) ==
    /\ race.state = "made"
    /\ race.pc[t] = "compare"
    /\ LET prev == race.previous_timestamp
           cur  == Val(race.current_timestamp)
       IN  IF SameMillisecond(prev, cur) /\ Overflowed(race.sequence)
           THEN race' = [race EXCEPT !.pc[t] = "sleep"]
           ELSE race' = [race EXCEPT
                           !.sequence = UpdatedSequence(prev, cur, @),
                           !.pc[t] = "record"]
    /\ UNCHANGED <<libvars, svc, held, probe, auth, api>>

\* sleep(1) returns: line 108
EndSleep(t) ==
    /\ race.state = "made"
    /\ race.pc[t] = "sleep"
    /\ race' = [race EXCEPT !.sequence = 0, !.pc[t] = "record"]
    /\ UNCHANGED <<libvars, svc, held, probe, auth, api>>

\* line 114
RecordTimestamp(t) ==
    /\ race.state = "made"
    /\ race.pc[t] = "record"
    /\ race' = [race EXCEPT !.previous_timestamp = race.current_timestamp,
                            !.pc[t] = "compose"]
    /\ UNCHANGED <<libvars, svc, held, probe, auth, api>>

\* lines 116-117
ComposeStep(t) ==
    /\ race.state = "made"
    /\ race.pc[t] = "compose"
    /\ race' = [race EXCEPT
                   !.id = Some(ComposeId(Val(race.current_timestamp),
                                         race.instance_id, race.sequence)),
                   !.pc[t] = "yield"]
    /\ UNCHANGED <<libvars, svc, held, probe, auth, api>>

\* line 118: the call of thread t returns the identifier.
YieldStep(t) ==
    /\ race.state = "made"
    /\ race.pc[t] = "yield"
    /\ race' = [race EXCEPT
                   !.done = @ \cup {[call |-> <<t, race.calls[t]>>,
                                     id |-> race.id]},
                   !.running = @ \ {t},
                   !.pc[t] = "idle"]
    /\ UNCHANGED <<libvars, svc, held, probe, auth, api>>

NextRace ==
    \/ \E t \in Threads : Call(t)
    \/ \E t \in Threads : ReadClock(t)
    \/ \E t \in Threads : CompareAndUpdate(t)
    \/ \E t \in Threads : EndSleep(t)
    \/ \E t \in Threads : RecordTimestamp(t)
    \/ \E t \in Threads : ComposeStep(t)
    \/ \E t \in Threads : YieldStep(t)
    \/ Tick /\ UNCHANGED appvars

SpecRace == InitRace /\ [][NextRace]_vars

\* ------------------------------------------------------------ claims
Yielded(g) == last[g].kind = "yield"

\* C1: under a clock that is never set back, the identifiers one generator
\* returns are pairwise distinct: it has returned as many different
\* identifiers as it has returned identifiers.
C1_PairwiseDistinct ==
    regressions = 0 => \A g \in Gens : IvSize(emitted[g]) = returned[g]

\* C3: a call that reads a strictly larger clock value than the call before
\* it returns a strictly greater identifier.
C3_IncreasingClockIncreasingIds ==
    \A g \in Gens :
        (Yielded(g) /\ before[g].kind = "yield"
            /\ MsDiff(last[g].now, before[g].now) > 0)
        => last[g].id > before[g].id

C3_Witness ==
    \E g \in Gens :
        /\ Yielded(g) /\ before[g].kind = "yield"
        /\ MsDiff(last[g].now, before[g].now) > 0
        /\ instance_id[g] = Some(_max_instances)

\* C4: get_instance of every identifier a generator returns is the instance
\* the generator was made with.
C4_InstanceRoundTrip ==
    \A g \in Gens : Yielded(g) => get_instance(last[g].id) = Val(instance_id[g])

\* C5: the sequence value composed into a returned identifier is in
\* 0 .. 4095.
C5_ComposedSequenceInRange ==
    \A g \in Gens : Yielded(g) => last[g].seq \in 0 .. _max_sequences

\* C6: the call made when 4096 identifiers have been returned for the same
\* clock reading sleeps and returns an identifier with sequence 0.
C6_OverflowCallSleeps ==
    \A g \in Gens :
        (Yielded(g) /\ last[g].prior = _max_sequences + 1)
        => (last[g].slept = 1 /\ get_sequence(last[g].id) = 0)

\* C7: under a clock that is never set back, get_sequence of a returned
\* identifier is the number of identifiers the generator had returned before
\* for the same clock reading.
C7_SequenceRoundTrip ==
    regressions = 0 =>
        \A g \in Gens : Yielded(g) => get_sequence(last[g].id) = last[g].prior

\* C8: get_timestamp of a returned identifier is the clock value the call
\* read, and _get_raw_timestamp is that value minus kodawari_epoch.
C8_TimestampRoundTrip ==
    \A g \in Gens :
        Yielded(g) =>
            /\ get_timestamp(last[g].id) = last[g].now
            /\ _get_raw_timestamp(last[g].id) = MsDiff(last[g].now, kodawari_epoch)

C8_Witness ==
    \E g \in Gens :
        /\ Yielded(g)
        /\ last[g].seq > _max_sequences
        /\ MsDiff(last[g].now, kodawari_epoch) > 0

\* C9: a generator made with a valid instance never raises, a call sleeps at
\* most once, and a sleeping call returns an identifier.
RaisedOnlyIfInvalid ==
    \A g \in Gens :
        IF status[g] = "raised" THEN InvalidInstance(Val(instance_id[g])) ELSE TRUE

SleptAtMostOnce ==
    \A g \in Gens : IF Yielded(g) THEN last[g].slept <= 1 ELSE TRUE

C9_EventuallyReturns ==
    /\ []RaisedOnlyIfInvalid
    /\ []SleptAtMostOnce
    /\ \A g \in Gens : (status[g] = "sleeping") ~> (status[g] = "suspended")

C9_Witness ==
    \E g \in Gens : Yielded(g) /\ last[g].slept = 1 /\ clock = last[g].now

\* C10: a generator object exists only for an instance in 0 .. 1023:
\* construction with another instance fails.
C10_ConstructionRejectsInvalid ==
    \A g \in Gens : status[g] = "created" => ~InvalidInstance(Val(instance_id[g]))

\* C2: two generators made with different instances never return the same
\* identifier.
C2_DisjointAcrossInstances ==
    \A g, h \in Gens :
        (status[g] # "absent" /\ status[h] # "absent"
            /\ instance_id[g] # instance_id[h])
        => ~IvMeet(emitted[g], emitted[h])

\* C11: when MACHINE_INSTANCE_IDENTIFIER is unset or is not a string of
\* decimal digits, startup aborts: no generator is made, the service never
\* serves, and no create request is answered or stored.
EnvMalformed(v) ==
    v = None \/ Len(Val(v)) = 0 \/ \E i \in DOMAIN Val(v) : ~IsDecimal(Val(v)[i])

C11_MalformedEnvAbortsStartup ==
    (svc.state # "none" /\ EnvMalformed(svc.env)) =>
        /\ svc.state \in {"starting", "aborted"}
        /\ status[1] = "absent"
        /\ svc.rows = {}
        /\ svc.response = NoResponse

C11_Witness ==
    /\ svc.state = "aborted"
    /\ svc.env # None
    /\ EnvMalformed(svc.env)
    /\ svc.cassandra

\* C12: when MACHINE_INSTANCE_IDENTIFIER is a string of decimal digits that
\* denotes an instance outside 0 .. 1023, startup aborts: the service never
\* serves with that generator installed.
EnvOutOfRange(v) == ~EnvMalformed(v) /\ InvalidInstance(IntOf(Val(v)))

C12_OutOfRangeEnvAbortsStartup ==
    (svc.state # "none" /\ EnvOutOfRange(svc.env)) =>
        svc.state \in {"starting", "aborted"}

\* C13: when the clock reading minus kodawari_epoch is in 0 .. 2^41 - 1,
\* every identifier next() returns is below 2^63 and its bits from 22 up are
\* the timestamp, whatever the instance and the sequence value reached.
HeldTimestamp == WSub(held.clock, W_kodawari_epoch)

C13_IdsFitSigned64 ==
    (held.state = "made" /\ held.id # None
        /\ WLess(HeldTimestamp, WPow2(_timestamp_bits)))
    => /\ WLess(Val(held.id), WPow2(63))
       /\ WShr(Val(held.id), 22) = HeldTimestamp

C13_Witness ==
    /\ held.state = "made" /\ held.id # None
    /\ held.clock = LastClock
    /\ held.instance_id = _max_instances
    /\ held.sequence = _max_sequences + 1

\* C14: of two identifiers returned by any generators, the one whose call
\* read the strictly smaller clock value is the strictly smaller number.
C14_SortableAcrossGenerators ==
    \A c, d \in ClockValues :
        (span[c] # None /\ span[d] # None /\ MsDiff(c, d) < 0)
        => Val(span[c])[2] < Val(span[d])[1]

C14_Witness ==
    \E g, h \in Gens :
        /\ Yielded(g) /\ Yielded(h)
        /\ instance_id[g] = Some(_max_instances) /\ instance_id[h] = Some(0)
        /\ last[g].seq = _max_sequences + 1
        /\ MsDiff(last[g].now, last[h].now) < 0

\* C15: for timestamp in 0 .. 2^41 - 1, instance in 0 .. 1023 and sequence
\* in 0 .. 4095 the composition is injective, and the three decoders give
\* back exactly the timestamp, the instance and the sequence.
C15_LosslessLayout ==
    (probe.state \in {"id", "decoded"} /\ probe.fields # None) =>
        /\ \A f \in ProbeFields :
              W_ComposeId(f[1], f[2], f[3]) = Val(probe.id) => f = Val(probe.fields)
        /\ probe.state = "decoded" =>
              /\ Val(probe.decoded.raw) = Val(probe.fields)[1]
              /\ Val(probe.decoded.instance) = Val(probe.fields)[2]
              /\ Val(probe.decoded.sequence) = Val(probe.fields)[3]

C15_Witness ==
    /\ probe.state = "decoded"
    /\ probe.fields = Some(<<WSub(WPow2(_timestamp_bits), WFromInt(1)),
                              WFromInt(_max_instances), WFromInt(_max_sequences)>>)

\* C16: on every non-negative integer below 2^63 the decoders agree with
\* plain bit-field extraction: get_instance is bits 12 .. 21, get_sequence
\* is bits 0 .. 11 and _get_raw_timestamp is the bits from 22 up.
BitField(id, low, high) == {i - low : i \in {j \in id : low <= j /\ j < high}}

C16_DecodersAreBitFields ==
    probe.state = "decoded" =>
        /\ Val(probe.decoded.instance) = BitField(Val(probe.id), 12, 22)
        /\ Val(probe.decoded.sequence) = BitField(Val(probe.id), 0, 12)
        /\ Val(probe.decoded.raw) = BitField(Val(probe.id), 22, 63)

C16_Witness ==
    /\ probe.state = "decoded"
    /\ probe.fields = None
    /\ probe.id = Some(WSub(WPow2(63), WFromInt(1)))

\* C17: the identifier 737534581841921 decodes to relative timestamp
\* 175841947, timestamp 1674660671000, instance 42 and sequence 1.
C17_FixtureDecodes ==
    (probe.state = "decoded" /\ probe.id = Some(FixtureId)) =>
        /\ Val(probe.decoded.raw) = WFromInt(175841947)
        /\ Val(probe.decoded.timestamp) =
               WDec(<<1, 6, 7, 4, 6, 6, 0, 6, 7, 1, 0, 0, 0>>)
        /\ Val(probe.decoded.instance) = WFromInt(42)
        /\ Val(probe.decoded.sequence) = WFromInt(1)

C17_Witness ==
    /\ probe.state = "decoded"
    /\ probe.fields = None
    /\ probe.id = Some(FixtureId)

\* C18: with the clock held at one value, the k-th next() of a fresh
\* generator, k in 1 .. 4096, returns the identifier made of that timestamp,
\* the instance of the generator and sequence k - 1; instance 1 with the
\* clock at 1674664504000 returns 753611348905986 on the third call.
C18_HeldClockCountsUp ==
    (held.state = "made" /\ held.calls \in 1 .. _max_sequences + 1) =>
        LET id == Val(held.id)
            instance == WFromInt(held.instance_id)
            k == held.calls
        IN  /\ id = WAdd(WAdd(WMul(HeldTimestamp, WPow2(22)),
                              WMul(instance, WPow2(12))),
                         WFromInt(k - 1))
            /\ W_get_raw_timestamp(id) = HeldTimestamp
            /\ W_get_instance(id) = instance
            /\ W_get_sequence(id) = WFromInt(k - 1)
            /\ (held.clock = TestClock /\ held.instance_id = 1 /\ k = 3) =>
                   id = WDec(<<7, 5, 3, 6, 1, 1, 3, 4, 8, 9, 0, 5, 9, 8, 6>>)

C18_Witness ==
    /\ held.state = "made"
    /\ held.clock = TestClock
    /\ held.instance_id = 1
    /\ held.calls = 3
    /\ held.id = Some(WDec(<<7, 5, 3, 6, 1, 1, 3, 4, 8, 9, 0, 5, 9, 8, 6>>))

\* C19: a GET of a resource that a POST created reports as joined
\* (created_at) the clock value that the next() call of that POST read; the
\* row holds no other creation time.
C19_JoinedIsClockAtCreation ==
    (svc.state # "none" /\ svc.response.code = 200) =>
        LET id == Val(svc.response.id)
        IN  /\ \E c \in ClockValues : IvHas(svc.madeAt[c], id)
            /\ \A c \in ClockValues :
                  IvHas(svc.madeAt[c], id) => svc.response.joined = Some(c)

C19_Witness ==
    /\ svc.state = "serving"
    /\ svc.response.code = 200
    /\ MsDiff(Val(svc.response.joined), kodawari_epoch) > 0
    /\ MsDiff(clock, Val(svc.response.joined)) = 0
    /\ get_sequence(Val(svc.response.id)) = _max_sequences

\* C20, as claimed: two calls of next() on one generator that overlap both
\* run the steps of the body, interleaved, and both return an identifier
\* (the same one on some interleaving).
Returned(c) == \E d \in race.done : d.call = c /\ d.id # None

Raised(c) == \E d \in race.done : d.call = c /\ d.id = None

Over(c) == \E d \in race.done : d.call = c

Frame(g) == <<previous_timestamp[g], sequence[g], instance_id[g]>>

ActsOn(g) == status'[g] # status[g] \/ returned'[g] # returned[g]

Decodes == probe'.state = "decoded" /\ probe' # probe

C21_OwnStateOnly ==
    [][/\ \A g \in Gens :
             /\ ActsOn(g) => \A h \in Gens \ {g} : Frame(h)' = Frame(h)
             /\ Frame(g)' # Frame(g) => ActsOn(g)
       /\ Decodes => \A g \in Gens : Frame(g)' = Frame(g) /\ ~ActsOn(g)]_vars

C21_Witness ==
    /\ probe.state = "decoded"
    /\ status[1] = "suspended" /\ sequence[1] = _max_sequences + 1
    /\ status[2] = "suspended" /\ sequence[2] = 0
    /\ returned[2] > 0
    /\ previous_timestamp[1] # previous_timestamp[2]

\* C23: authenticate gives the claims of a token that is signed with the
\* secret, has both claims and has an expiry not before the clock; it
\* answers 401 to such a token with an expiry before the clock and to a token
\* signed with another key; it answers 500 to every other failure; and the
\* handler of a protected route runs only with claims of a valid token.
SignedWith(t, k) == k # None /\ t.wellformed /\ t.key = Val(k)

Complete(t) == t.payload.id # None /\ t.payload.expiry # None

ValidToken ==
    /\ SignedWith(auth.token, auth.secret)
    /\ Complete(auth.token)
    /\ Val(auth.token.payload.expiry) >= auth.now

Unauthorized ==
    \/ /\ SignedWith(auth.token, auth.secret)
       /\ Complete(auth.token)
       /\ Val(auth.token.payload.expiry) < auth.now
    \/ /\ auth.secret # None
       /\ auth.token.wellformed
       /\ auth.token.key # Val(auth.secret)

C23_OneResultPerOutcome ==
    auth.state \in {"resolved", "handled", "rejected"} =>
        /\ IF ValidToken
           THEN auth.result = Claims([id |-> Val(auth.token.payload.id),
                                      expiry |-> Val(auth.token.payload.expiry)])
           ELSE IF Unauthorized THEN auth.result = HTTPException(401)
           ELSE auth.result = HTTPException(500)
        /\ auth.state = "handled" => ValidToken

C23_Witness ==
    /\ auth.state = "handled"
    /\ Val(auth.token.payload.expiry) = auth.now

\* C22: a PATCH or DELETE of a recipe or variation whose stored author_id
\* differs from the id of the caller's claims ends with 403 at the step that
\* read the resource: that step and the request as a whole execute no UPDATE
\* or DELETE, leave both tables as they are and produce no event.
Denied(r) == r.op \in Patches \cup Deletes /\ r.author # 0 /\ r.author # r.user

DeniedIsForbidden ==
    api.state = "serving" =>
        /\ \A s \in Slots : ~Denied(api.req[s])
        /\ Denied(api.response) =>
              /\ api.response.code = 403
              /\ ~api.response.wrote
              /\ ~api.response.produced

DenialChangesNothing ==
    (api.state = "serving" /\ api'.response # api.response
        /\ Denied(api'.response)) =>
            /\ api'.recipe = api.recipe
            /\ api'.variation = api.variation
            /\ api'.events = api.events

C22_NonOwnerGets403 == []DeniedIsForbidden /\ [][DenialChangesNothing]_vars

C22_Witness ==
    /\ api.state = "serving"
    /\ api.response.op \in {"patch_variation", "delete_variation"}
    /\ api.response.code = 403
    /\ \E row \in api.variation :
          /\ row.id = Val(api.response.id)
          /\ row.author_id # api.response.user
          /\ row.name = CreatedName

\* C24: when a call that slept returns, the timestamp in its identifier and
\* in previous_timestamp is the value of the clock after the sleep.
PostSleepTimestamp(g) ==
    (status[g] = "sleeping" /\ status'[g] = "suspended") =>
        /\ _get_raw_timestamp(last'[g].id) = MsDiff(clock', kodawari_epoch)
        /\ previous_timestamp'[g] = Some(MsDiff(clock', kodawari_epoch))

C24_RereadsClockAfterSleep == [][\A g \in Gens : PostSleepTimestamp(g)]_vars

\* C25: the first call and a call with another clock reading than the call
\* before return sequence 0; a call with the same reading as the call before,
\* which returned a sequence s below 4095, returns s + 1; and a call that did
\* not sleep leaves the counter at 4095 or below.
SequenceRule(g) ==
    /\ before[g].kind # "yield" => last[g].seq = 0
    /\ (before[g].kind = "yield" /\ before[g].now # last[g].now)
          => last[g].seq = 0
    /\ (before[g].kind = "yield" /\ before[g].now = last[g].now
          /\ before[g].seq < _max_sequences)
          => last[g].seq = before[g].seq + 1
    /\ last[g].slept = 0 => sequence[g] <= _max_sequences

C25_SequenceTransitions ==
    \A g \in Gens : (Yielded(g) /\ status[g] = "suspended") => SequenceRule(g)

\* C26: a call that reads a clock value below the reading of the call before
\* it returns, without raising and without sleeping, an identifier with the
\* lower timestamp and sequence 0 that is below the identifier returned
\* before.
ReadsEarlierClock(g) ==
    /\ status[g] = "suspended"
    /\ Yielded(g)
    /\ MsDiff(clock, last[g].now) < 0
    /\ status'[g] # status[g] \/ returned'[g] # returned[g]

C26_RegressionGoesUnnoticed ==
    [][\A g \in Gens :
          ReadsEarlierClock(g) =>
             /\ status'[g] = "suspended"
             /\ returned'[g] = returned[g] + 1
             /\ last'[g].slept = 0
             /\ last'[g].seq = 0
             /\ get_sequence(last'[g].id) = 0
             /\ get_timestamp(last'[g].id) = clock
             /\ last'[g].id < last[g].id]_vars

C26_Witness ==
    \E g \in Gens :
        /\ Yielded(g) /\ before[g].kind = "yield"
        /\ MsDiff(last[g].now, before[g].now) < 0
        /\ before[g].seq = _max_sequences + 1
        /\ instance_id[g] = Some(_max_instances)
        /\ last[g].id < before[g].id

\* C27: while the clock has not been set back and no clock value has been
\* read by more than 4096 calls of a generator, the identifier a call of that
\* generator returns is greater than every identifier it returned before.
AtMostFullMilliseconds(g) ==
    \A c \in ClockValues : issuedAt[g][c] <= _max_sequences + 1

C27_StrictlyIncreasing ==
    \A g \in Gens :
        (Yielded(g) /\ status[g] = "suspended" /\ regressions = 0
            /\ AtMostFullMilliseconds(g)) =>
            /\ \A iv \in emitted[g] : iv[2] <= last[g].id
            /\ IvSize(emitted[g]) = returned[g]
            /\ before[g].kind = "yield" => before[g].id < last[g].id

C27_Witness ==
    \E g \in Gens :
        /\ Yielded(g) /\ regressions = 0 /\ AtMostFullMilliseconds(g)
        /\ before[g].kind = "yield"
        /\ before[g].seq = _max_sequences
        /\ issuedAt[g][before[g].now] = _max_sequences + 1
        /\ MsDiff(before[g].now, last[g].now) < 0
        /\ instance_id[g] = Some(_max_instances)

\* C28: a call is in its sleep, or has slept, only if the call before it
\* returned with the same clock reading and at least 4096 identifiers had
\* been returned for that reading; the first call and a call with another
\* reading do not sleep; the counter is always in 0 .. 4096.
FullBefore(g, call, now, issued) ==
    /\ call.kind = "yield"
    /\ call.now = now
    /\ issued >= _max_sequences + 1

C28_NoSpuriousSleep ==
    \A g \in Gens :
        /\ sequence[g] \in 0 .. _max_sequences + 1
        /\ status[g] = "sleeping" =>
              FullBefore(g, last[g], Val(reading[g]),
                         issuedAt[g][Val(reading[g])])
        /\ (Yielded(g) /\ status[g] = "suspended" /\ last[g].slept > 0) =>
              FullBefore(g, before[g], last[g].now, last[g].prior)
        /\ (Yielded(g) /\ status[g] = "suspended"
              /\ (before[g].kind # "yield" \/ before[g].now # last[g].now)) =>
              last[g].slept = 0

C28_Witness ==
    \E g \in Gens :
        /\ status[g] = "sleeping"
        /\ sequence[g] = _max_sequences + 1
        /\ regressions > 0
        /\ clock # Val(reading[g])

\* C29: with create requests in progress at the same time in user_api or
\* recipe_api, while the clock has not been set back and no clock value has
\* been read by more than 4096 creations, no two requests hold the same
\* identifier, the identifier a request is about to insert is the primary
\* key of no stored row, and every INSERT has written a row of its own.
Obtained(s) ==
    /\ api.req[s].pc \in {"write", "emit"}
    /\ api.req[s].op \in Creates \cup UserCreates

Rows == api.user \cup api.recipe \cup api.variation

C29_ConcurrentCreatesDistinct ==
    (api.state # "none" /\ regressions = 0 /\ AtMostFullMilliseconds(1)) =>
        /\ \A s, t \in Slots :
              (s # t /\ Obtained(s) /\ Obtained(t)) =>
                  api.req[s].id # api.req[t].id
        /\ \A s \in Slots :
              (Obtained(s) /\ api.req[s].pc = "write") =>
                  \A r \in Rows : r.id # Val(api.req[s].id)
        /\ Cardinality({r.id : r \in Rows}) = api.inserts
        /\ IvSize(emitted[1]) = returned[1]

C29_Witness ==
    /\ regressions = 0 /\ AtMostFullMilliseconds(1)
    /\ \A s \in Slots : Obtained(s) /\ api.req[s].pc = "write"
    /\ api.req[1].id # api.req[2].id
    /\ _get_raw_timestamp(Val(api.req[1].id))
          = _get_raw_timestamp(Val(api.req[2].id))
    /\ api.inserts > 0

\* C30: a generator made with an instance outside 0 .. 1023 never returns an
\* identifier: its first call fails with the invalid-instance error, every
\* call after that fails too and leaves it finished, and every identifier
\* that any generator returned carries the in-range instance it was made with.
OutOfRange(g) ==
    instance_id[g] # None /\ InvalidInstance(Val(instance_id[g]))

NeverEmits(g) ==
    /\ returned[g] = 0
    /\ emitted[g] = {}
    /\ status[g] \in {"created", "raised"}
    /\ status[g] = "created" => last[g].kind = "none"
    /\ status[g] = "raised" =>
          \/ last[g].kind = "raise"
          \/ last[g].kind = "stop" /\ before[g].kind \in {"raise", "stop"}

CarriesOwnInstance(g) ==
    \A iv \in emitted[g] :
        \A id \in {iv[1], iv[2]} :
            /\ get_instance(id) \in 0 .. _max_instances
            /\ get_instance(id) = Val(instance_id[g])

StaysFinished(g) ==
    status[g] = "raised" =>
        /\ status'[g] = "raised"
        /\ returned'[g] = returned[g]
        /\ last'[g] # last[g] => last'[g].kind = "stop"

C30_InvalidInstanceNeverEmits ==
    /\ [](\A g \in Gens : (OutOfRange(g) => NeverEmits(g))
                             /\ CarriesOwnInstance(g))
    /\ [][\A g \in Gens : StaysFinished(g)]_vars

C30_Witness ==
    \E g, h \in Gens :
        /\ instance_id[g] = Some(_max_instances + 1)
        /\ status[g] = "raised"
        /\ last[g].kind = "stop" /\ before[g].kind = "stop"
        /\ instance_id[h] = Some(_max_instances)
        /\ returned[h] > 1

====
